---- MODULE Spec2Model ----
(***************************************************************************)
(* Projection resolution, merging and assembly of the chart compiler.      *)
(*                                                                         *)
(* A compile is modelled as a run over one spec tree: Model objects are    *)
(* constructed (Init), parseProjection walks the tree in post-order (one   *)
(* step per node), and assembleProjections then reads the resolved tree.   *)
(* JavaScript `undefined` is written None (the empty tuple) for optional   *)
(* objects and Undefined for an absent string.                             *)
(***************************************************************************)
EXTENDS Integers, Sequences, FiniteSets, TLC

VARIABLES
    model,                \* node -> the readonly fields of its Model / UnitModel
    config,               \* config.projection, shared by the whole tree
    component,            \* node -> model.component.projection (None | Some(c))
    projectionNameMap,    \* node -> Model.projectionNameMap.map
    signalNameMap,        \* node -> Model.signalNameMap.map
    outputNodes,          \* component.data.outputNodes: data name -> source
    outputNodeRefCounts,  \* component.data.outputNodeRefCounts
    todo,                 \* nodes parseProjection has still to return from
    phase,                \* "parse" | "assemble" | "done" | "error"
    projections,          \* None | Some(the assembled projections array)
    transforms,           \* node -> None | Some(projection name of its geoshape transform)
    error,                \* message of the Error that aborted the compile
    mergeFirst,           \* mergeIfNoConflict applied alone: its first argument
    mergeSecond,          \* ... its second argument
    mergeResult,          \* ... [done, value]: value is None (null) | Some(c)
    geoJSONNodes,         \* node -> None | Some(the GeoJSONNodes parseAll put on its parent)
    geoPointNodes,        \* node -> None | Some(the GeoPointNodes parseAll put on its parent)
    dataAssembled,        \* node -> None | Some(what assemble() of its nodes returned)
    cloned,               \* node -> None | Some(what clone() of its nodes returned)
    nameMap,              \* a NameMap used alone: its map
    renamed               \* ... None | Some(the run of equal rename calls just made)

dataVars == <<geoJSONNodes, geoPointNodes, dataAssembled, cloned>>
nameMapVars == <<nameMap, renamed>>

vars == <<model, config, component, projectionNameMap, signalNameMap,
          outputNodes, outputNodeRefCounts, todo, phase, projections,
          transforms, error, mergeFirst, mergeSecond, mergeResult,
          geoJSONNodes, geoPointNodes, dataAssembled, cloned, nameMap,
          renamed>>

----------------------------------------------------------------------------
(* Bounds of the model *)

\* number of distinct user-given property values ("v1", "v2", ...)
NumValues == 2

\* number of equal rename calls in a row that are counted
MaxRenames == 3

----------------------------------------------------------------------------
(* JavaScript values *)

None == <<>>
Some(x) == <<x>>
IsSome(o) == o # None
The(o) == o[1]

Undefined == "undefined"

Range(s) == {s[i] : i \in DOMAIN s}

RECURSIVE SeqOfSet(_)
SeqOfSet(S) ==
    IF S = {} THEN <<>>
    ELSE LET x == CHOOSE y \in S : \A z \in S : y <= z
         IN <<x>> \o SeqOfSet(S \ {x})

\* a user-given constant and a signal reference, as property values
Value(s) == [value |-> s]
SignalRef(s) == [signal |-> s]
Null == [value |-> "null"]
PropValues == {Value("v" \o ToString(i)) : i \in 1..NumValues}

----------------------------------------------------------------------------
(* projection.ts *)

PROJECTION_PROPERTIES ==
    {"type", "clipAngle", "clipExtent", "center", "rotate", "precision",
     "reflectX", "reflectY", "coefficient", "distance", "fraction", "lobes",
     "parallel", "radius", "ratio", "spacing", "tilt"}

----------------------------------------------------------------------------
(* Names: Model.name is kept as the raw text, a sequence of tokens; varName *)
(* turns raw text into an identifier.                                      *)

NonWord == {" ", "-", "."}
Digits == {"0", "1", "2", "3", "4", "5", "6", "7", "8", "9"}

RECURSIVE ReplaceNonWord(_)
ReplaceNonWord(toks) ==
    IF toks = <<>> THEN ""
    ELSE (IF Head(toks) \in NonWord THEN "_" ELSE Head(toks))
         \o ReplaceNonWord(Tail(toks))

\* s.replace(/\W/g, '_'), prefixed by '_' when s starts with a digit
varName(toks) ==
    (IF toks # <<>> /\ Head(toks) \in Digits THEN "_" ELSE "")
    \o ReplaceNonWord(toks)

\* Model constructor: this.name = name || (parent ? `${parent.name}_child` : '')
ModelName(givenName, hasParent, parentName) ==
    IF givenName # <<>> THEN givenName
    ELSE IF hasParent THEN parentName \o <<"_child">> ELSE <<>>

\* Model.getName(text)
getName(n, text) ==
    varName((IF model[n].name # <<>> THEN model[n].name \o <<"_">> ELSE <<>>)
            \o <<text>>)

\* Model.getDataName(DataSourceType.Main)
getDataName(n) == getName(n, "main")

----------------------------------------------------------------------------
(* NameMap *)

NameMapHas(map, key) == key \in DOMAIN map

NameMapGet(map, key) == IF key \in DOMAIN map THEN map[key] ELSE Undefined

NameMapSet(map, key, value) ==
    [k \in DOMAIN map \cup {key} |-> IF k = key THEN value ELSE map[k]]

\* a rename that is not guarded by the existing entry
NameMapRenameUnguarded(map, oldName, newName) ==
    NameMapSet(map, oldName, newName)

\* rename(oldName, newName): if (this.map[oldName]) this.map[oldName] = newName
NameMapRename(map, oldName, newName) ==
    IF oldName \in DOMAIN map /\ map[oldName] # "" /\ map[oldName] # Undefined
    THEN [map EXCEPT ![oldName] = newName]
    ELSE map

----------------------------------------------------------------------------
(* The tree *)

Nodes == DOMAIN model
Root == 1

isUnitModel(n) == model[n].type = "unit"
isLayerModel(n) == model[n].type = "layer"
isConcatModel(n) == model[n].type = "concat"

\* model.children, in declaration order
Children(n) == SeqOfSet({c \in Nodes : model[c].parent = n})

----------------------------------------------------------------------------
(* Split and ProjectionComponent *)

\* {...a, ...b}
Spread(a, b) ==
    [k \in DOMAIN a \cup DOMAIN b |-> IF k \in DOMAIN b THEN b[k] ELSE a[k]]

\* new ProjectionComponent(name, specifiedProjection, size, data)
ProjectionComponent(name, specifiedProjection, size, data) ==
    [explicit |-> specifiedProjection,
     implicit |-> [name |-> name],
     specifiedProjection |-> specifiedProjection,
     size |-> size,
     data |-> data,
     merged |-> FALSE]

\* Split.get(key): the explicit value if present, else the implicit one
SplitGet(c, key) ==
    IF key \in DOMAIN c.explicit THEN Some(c.explicit[key])
    ELSE IF key \in DOMAIN c.implicit THEN Some(c.implicit[key])
    ELSE None

\* Split.set(key, value, isExplicit): writes into the corresponding layer
SplitSet(c, key, value, isExplicit) ==
    IF isExplicit
    THEN [c EXCEPT !.explicit = Spread(c.explicit, [k \in {key} |-> value])]
    ELSE [c EXCEPT !.implicit = Spread(c.implicit, [k \in {key} |-> value])]

\* Split.combine(): both layers, explicit values winning
SplitCombine(c) == Spread(c.implicit, c.explicit)

\* the name of a component, projection.get('name')
ComponentName(c) == The(SplitGet(c, "name"))

\* ProjectionComponent.isFit
isFit(c) == c.data # None

----------------------------------------------------------------------------
(* UnitModel *)

NoDef == [kind |-> "none", type |-> "none"]
FieldDef(type) == [kind |-> "field", type |-> type]
DatumDef == [kind |-> "datum", type |-> "none"]
ValueDef == [kind |-> "value", type |-> "none"]

GEOPOSITION_CHANNELS == {"longitude", "longitude2", "latitude", "latitude2"}

isFieldOrDatumDef(def) == def.kind \in {"field", "datum"}

\* getFieldOrDatumDef(def) is defined (truthy)
getFieldOrDatumDef(def) == isFieldOrDatumDef(def)

\* UnitModel.hasProjection
hasProjection(n) ==
    \/ model[n].mark = "geoshape"
    \/ \E channel \in GEOPOSITION_CHANNELS :
          isFieldOrDatumDef(model[n].encoding[channel])

\* UnitModel.channelHasField(channel)
channelHasField(n, channel) == model[n].encoding[channel].kind = "field"

\* replaceExprRef(o): every {expr: e} among the values of o becomes {signal: e}
replaceExprRef(o) ==
    [k \in DOMAIN o |->
        IF DOMAIN o[k] = {"expr"} THEN SignalRef(o[k].expr) ELSE o[k]]

\* Model.getSizeSignalRef(layoutSizeType), for a model whose parent is no facet
getSizeSignalRef(n, layoutSizeType) ==
    SignalRef(NameMapGet(signalNameMap[n], getName(n, layoutSizeType)))

\* Model.projectionName(parse)
projectionName(n, parse) ==
    IF parse THEN getName(n, "projection")
    ELSE IF \/ (IsSome(component[n]) /\ ~The(component[n]).merged)
            \/ NameMapHas(projectionNameMap[n], getName(n, "projection"))
         THEN NameMapGet(projectionNameMap[n], getName(n, "projection"))
         ELSE Undefined

----------------------------------------------------------------------------
(* compile/projection/parse.ts *)

DataSignal(name) == [kind |-> "signal", name |-> name]
DataName(name) == [kind |-> "data", name |-> name]
isSignalRef(d) == d.kind = "signal"

\* the geojson_<i> signals gatherFitData pushes before its fallback
GeoFitSignals(n) ==
    LET enc == model[n].encoding
        p1 == IF getFieldOrDatumDef(enc.longitude) \/ getFieldOrDatumDef(enc.latitude)
              THEN <<DataSignal(getName(n, "geojson_0"))>> ELSE <<>>
        p2 == IF getFieldOrDatumDef(enc.longitude2) \/ getFieldOrDatumDef(enc.latitude2)
              THEN <<DataSignal(getName(n, "geojson_" \o ToString(Len(p1))))>>
              ELSE <<>>
        p12 == p1 \o p2
        p3 == IF channelHasField(n, "shape") /\ enc.shape.type = "geojson"
              THEN <<DataSignal(getName(n, "geojson_" \o ToString(Len(p12))))>>
              ELSE <<>>
    IN p12 \o p3

\* a gatherFitData without the fallback to the main data source
gatherFitDataWithoutFallback(n) == GeoFitSignals(n)

\* gatherFitData(model): the list; requestDataName is called iff it is the fallback
gatherFitData(n) ==
    IF GeoFitSignals(n) = <<>> THEN <<DataName(getDataName(n))>>
    ELSE GeoFitSignals(n)

\* Model.requestDataName(Main) was called by gatherFitData
RequestsMain(n) == GeoFitSignals(n) = <<>>

\* refCounts[fullName] = (refCounts[fullName] || 0) + 1
IncrRefCount(refCounts, fullName) ==
    [k \in DOMAIN refCounts \cup {fullName} |->
        IF k = fullName
        THEN (IF k \in DOMAIN refCounts THEN refCounts[k] ELSE 0) + 1
        ELSE refCounts[k]]

\* a fit test that looks at the scale only
UnitFitScaleOnly(proj) ==
    ~("scale" \in DOMAIN proj /\ proj["scale"] # Null)

\* fit = !(proj && (proj.scale != null || proj.translate != null))
UnitFit(proj) ==
    ~(\E k \in {"scale", "translate"} : k \in DOMAIN proj /\ proj[k] # Null)

\* parseUnitProjection, from `const proj` on: the component built for a unit
\* whose projection name, specified projection, size signals and fit data are
\* given (size and data are used only when fit)
UnitProjectionComponent(name, specifiedProjection, size, data) ==
    LET proj == IF IsSome(specifiedProjection)
                THEN replaceExprRef(The(specifiedProjection))
                ELSE <<>>
        fit == UnitFit(proj)
        projComp == ProjectionComponent(name,
                        Spread(replaceExprRef(config), proj),
                        IF fit THEN Some(size) ELSE None,
                        IF fit THEN Some(data) ELSE None)
        type == SplitGet(projComp, "type")
    IN IF type = None \/ The(type) = Null
       THEN SplitSet(projComp, "type", Value("equalEarth"), FALSE)
       ELSE projComp

\* parseUnitProjection(model)
parseUnitProjection(n) ==
    IF hasProjection(n)
    THEN Some(UnitProjectionComponent(
                  projectionName(n, TRUE),
                  model[n].specifiedProjection,
                  <<getSizeSignalRef(n, "width"), getSizeSignalRef(n, "height")>>,
                  gatherFitData(n)))
    ELSE None

\* a property test that lets a property be explicit on one side only
allPropertiesSharedOrOneSided(a, b) ==
    \A prop \in PROJECTION_PROPERTIES :
        (prop \in DOMAIN a.explicit /\ prop \in DOMAIN b.explicit)
        => SplitGet(a, prop) = SplitGet(b, prop)

\* mergeIfNoConflict: every(PROJECTION_PROPERTIES, ...)
allPropertiesShared(a, b) ==
    \A prop \in PROJECTION_PROPERTIES :
        \/ prop \notin DOMAIN a.explicit /\ prop \notin DOMAIN b.explicit
        \/ /\ prop \in DOMAIN a.explicit
           /\ prop \in DOMAIN b.explicit
           /\ SplitGet(a, prop) = SplitGet(b, prop)

\* a merge that succeeds only when one side has no explicit property
mergeIfOneSideEmpty(a, b) ==
    IF a.size = b.size
    THEN IF a.explicit = <<>> THEN Some(b)
         ELSE IF b.explicit = <<>> THEN Some(a)
         ELSE None
    ELSE None

\* a merge that does not compare the sizes
mergeIgnoringSize(a, b) ==
    IF allPropertiesShared(a, b) THEN Some(a)
    ELSE IF a.explicit = <<>> THEN Some(b)
    ELSE IF b.explicit = <<>> THEN Some(a)
    ELSE None

\* a merge for which an absent size equals any size
mergeIfSizesNotDifferent(a, b) ==
    IF a.size = b.size \/ a.size = None \/ b.size = None
    THEN IF allPropertiesShared(a, b) THEN Some(a)
         ELSE IF a.explicit = <<>> THEN Some(b)
         ELSE IF b.explicit = <<>> THEN Some(a)
         ELSE None
    ELSE None

\* mergeIfNoConflict(first, second): None is null
mergeIfNoConflict(a, b) ==
    IF a.size = b.size
    THEN IF allPropertiesShared(a, b) THEN Some(a)
         ELSE IF a.explicit = <<>> THEN Some(b)
         ELSE IF b.explicit = <<>> THEN Some(a)
         ELSE None
    ELSE None

\* parseNonUnitProjections: every(model.children, ...) from child i on, with
\* nonUnitProjection = acc; the result is [mergable, nonUnitProjection]
RECURSIVE MergeChildren(_, _, _)
\* a reduction that takes a child without a component for a conflict
MergeChildrenStrict(kids, i, acc) ==
    IF i > Len(kids) THEN [mergable |-> TRUE, nonUnitProjection |-> acc]
    ELSE LET projection == component[kids[i]]
         IN IF projection = None
            THEN [mergable |-> FALSE, nonUnitProjection |-> acc]
            ELSE IF acc = None THEN MergeChildren(kids, i + 1, projection)
            ELSE LET m == mergeIfNoConflict(The(acc), The(projection))
                 IN IF IsSome(m) THEN MergeChildren(kids, i + 1, m)
                    ELSE [mergable |-> FALSE, nonUnitProjection |-> acc]

MergeChildren(kids, i, acc) ==
    IF i > Len(kids) THEN [mergable |-> TRUE, nonUnitProjection |-> acc]
    ELSE LET projection == component[kids[i]]
         IN IF projection = None THEN MergeChildren(kids, i + 1, acc)
            ELSE IF acc = None THEN MergeChildren(kids, i + 1, projection)
            ELSE LET m == mergeIfNoConflict(The(acc), The(projection))
                 IN IF IsSome(m) THEN MergeChildren(kids, i + 1, m)
                    ELSE [mergable |-> FALSE, nonUnitProjection |-> acc]

\* the data that the promotion loop has pushed after children 1..i
RECURSIVE PushedData(_, _, _)
PushedData(kids, i, data) ==
    IF i = 0 THEN data
    ELSE LET before == PushedData(kids, i - 1, data)
             projection == component[kids[i]]
         IN IF IsSome(projection) /\ isFit(The(projection))
            THEN before \o The(The(projection).data)
            ELSE before

\* a reduction that renames and flags the children although a merge failed
parseNonUnitProjectionsFlagging(n) ==
    LET kids == Children(n)
    IN [projection |-> None,
        touched |-> {kids[i] : i \in {j \in 1..Len(kids) : IsSome(component[kids[j]])}},
        name |-> projectionName(n, TRUE),
        thrown |-> FALSE]

\* a promotion that neither renames nor flags the children
parseNonUnitProjectionsNotFlagging(n) ==
    LET kids == Children(n)
        red == MergeChildren(kids, 1, None)
        acc == red.nonUnitProjection
        name == projectionName(n, TRUE)
    IN IF Len(kids) # 0 /\ IsSome(acc) /\ red.mergable
       THEN [projection |->
                Some(ProjectionComponent(
                         name, The(acc).specifiedProjection, The(acc).size,
                         IF The(acc).data = None THEN None
                         ELSE Some(PushedData(kids, Len(kids), The(The(acc).data))))),
             touched |-> {}, name |-> name, thrown |-> FALSE]
       ELSE [projection |-> None, touched |-> {}, name |-> name,
             thrown |-> FALSE]

\* parseNonUnitProjections(model): what the call leaves behind.
\*   projection  the returned component (None is undefined)
\*   touched     the children renamed and flagged merged
\*   name        the name the children's references are renamed to
\*   thrown      the push on an undefined data list threw a TypeError
parseNonUnitProjections(n) ==
    LET kids == Children(n)
        red == MergeChildren(kids, 1, None)
        acc == red.nonUnitProjection
        name == projectionName(n, TRUE)
        nothing == [projection |-> None, touched |-> {}, name |-> name,
                    thrown |-> FALSE]
    IN IF Len(kids) = 0 THEN nothing
       ELSE IF IsSome(acc) /\ red.mergable
       THEN LET withComponent == {i \in 1..Len(kids) : IsSome(component[kids[i]])}
                throwing == {i \in withComponent :
                                /\ isFit(The(component[kids[i]]))
                                /\ The(acc).data = None}
                stop == IF throwing = {} THEN Len(kids) + 1
                        ELSE CHOOSE i \in throwing : \A j \in throwing : i <= j
                data == IF The(acc).data = None THEN None
                        ELSE Some(PushedData(kids, Len(kids), The(The(acc).data)))
                modelProjection ==
                    ProjectionComponent(name, The(acc).specifiedProjection,
                                        The(acc).size, data)
            IN [projection |-> IF throwing = {} THEN Some(modelProjection) ELSE None,
                touched |-> {kids[i] : i \in {j \in withComponent : j < stop}},
                name |-> name,
                thrown |-> throwing # {}]
       ELSE nothing

----------------------------------------------------------------------------
(* The resolve phase: parseProjection(model), one node per step, post-order *)

RECURSIVE PostOrder(_)
RECURSIVE PostOrderAll(_)
PostOrderAll(kids) ==
    IF kids = <<>> THEN <<>>
    ELSE PostOrder(Head(kids)) \o PostOrderAll(Tail(kids))
\* a walk that takes a node before its children
PreOrder(n) == <<n>> \o PostOrderAll(Children(n))

PostOrder(n) == PostOrderAll(Children(n)) \o <<n>>

\* parseProjection(model) for a unit model
ParseUnit(n) ==
    /\ component' = [component EXCEPT ![n] = parseUnitProjection(n)]
    /\ outputNodeRefCounts' =
          IF IsSome(parseUnitProjection(n)) /\ isFit(The(parseUnitProjection(n)))
             /\ RequestsMain(n)
          THEN IncrRefCount(outputNodeRefCounts, getDataName(n))
          ELSE outputNodeRefCounts
    /\ phase' = IF Len(todo) = 1 THEN "assemble" ELSE "parse"
    /\ UNCHANGED <<projectionNameMap, error>>

\* parseProjection(model) for a layer or concat model, its children parsed
ParseNonUnit(n) ==
    LET r == parseNonUnitProjections(n)
    IN /\ component' =
             [c \in Nodes |->
                 IF c = n THEN (IF r.thrown THEN component[n] ELSE r.projection)
                 ELSE IF c \in r.touched
                 THEN Some([The(component[c]) EXCEPT !.merged = TRUE])
                 ELSE component[c]]
       /\ projectionNameMap' =
             [c \in Nodes |->
                 IF c \in r.touched
                 THEN NameMapRename(projectionNameMap[c],
                                    ComponentName(The(component[c])), r.name)
                 ELSE projectionNameMap[c]]
       /\ phase' = IF r.thrown THEN "error"
                   ELSE IF Len(todo) = 1 THEN "assemble" ELSE "parse"
       /\ error' = IF r.thrown THEN "TypeError" ELSE error
       /\ UNCHANGED outputNodeRefCounts

ParseProjection ==
    /\ phase = "parse"
    /\ todo # <<>>
    /\ IF isUnitModel(Head(todo)) THEN ParseUnit(Head(todo))
       ELSE ParseNonUnit(Head(todo))
    /\ todo' = Tail(todo)
    /\ UNCHANGED <<model, config, signalNameMap, outputNodes, projections,
                   transforms, mergeFirst, mergeSecond, mergeResult,
                   dataVars, nameMapVars>>

----------------------------------------------------------------------------
(* compile/projection/assemble.ts *)

\* Model.lookupDataSource(name): OutputNode.getSource() answers for a known name
lookupDataSource(name) ==
    IF name \in DOMAIN outputNodes THEN outputNodes[name] ELSE name

\* the source expression of one entry of component.data
FitSource(d) ==
    IF isSignalRef(d) THEN d.name
    ELSE "data('" \o lookupDataSource(d.name) \o "')"

\* component.data.reduce(...): each source once, in order of first occurrence
RECURSIVE FitSources(_)
\* a reduce that pushes every source, seen before or not
FitSourcesWithRepeats(data) ==
    [k \in DOMAIN data |-> FitSource(data[k])]

FitSources(data) ==
    IF data = <<>> THEN <<>>
    ELSE LET sources == FitSources(SubSeq(data, 1, Len(data) - 1))
             source == FitSource(data[Len(data)])
         IN IF source \in Range(sources) THEN sources
            ELSE Append(sources, source)

\* Array.prototype.join(', '): an undefined element is rendered empty
RECURSIVE Join(_)
Join(strs) ==
    IF strs = <<>> THEN ""
    ELSE (IF Len(strs) > 1 THEN Join(SubSeq(strs, 1, Len(strs) - 1)) \o ", "
          ELSE "")
         \o (IF strs[Len(strs)] = Undefined THEN "" ELSE strs[Len(strs)])

\* a fit signal that is bracketed whatever the number of sources
FitSignalAlwaysBracketed(fits) ==
    "[" \o Join(fits) \o "]"

\* fits.length > 1 ? `[${fits.join(', ')}]` : fits[0]
FitSignal(fits) ==
    IF Len(fits) > 1 THEN "[" \o Join(fits) \o "]" ELSE fits[1]

\* assembleProjectionForModel throws: a fit component without any source
FitThrows(n) ==
    /\ IsSome(component[n])
    /\ ~The(component[n]).merged
    /\ isFit(The(component[n]))
    /\ Len(FitSources(The(The(component[n]).data))) <= 0

\* an assembly that does not skip a merged component
assembleProjectionIgnoringMerged(n) ==
    IF component[n] = None THEN <<>>
    ELSE LET c == The(component[n])
             projection == SplitCombine(c)
             name == projection.name
         IN IF c.data = None
            THEN << Spread([name |-> name,
                            translate |-> SignalRef("[width / 2, height / 2]")],
                           projection) >>
            ELSE LET size == SignalRef("[" \o Join([i \in DOMAIN The(c.size) |->
                                                     The(c.size)[i].signal]) \o "]")
                     fits == FitSources(The(c.data))
                 IN << Spread([name |-> name,
                               size |-> size,
                               fit |-> SignalRef(FitSignal(fits))],
                              projection) >>

\* an assembly that spreads the component first and the defaults last
assembleProjectionDefaultsLast(n) ==
    IF component[n] = None \/ The(component[n]).merged THEN <<>>
    ELSE LET c == The(component[n])
             projection == SplitCombine(c)
             name == projection.name
         IN IF c.data = None
            THEN << Spread(projection,
                           [name |-> name,
                            translate |-> SignalRef("[width / 2, height / 2]")]) >>
            ELSE LET size == SignalRef("[" \o Join([i \in DOMAIN The(c.size) |->
                                                     The(c.size)[i].signal]) \o "]")
                     fits == FitSources(The(c.data))
                 IN << Spread(projection,
                              [name |-> name,
                               size |-> size,
                               fit |-> SignalRef(FitSignal(fits))]) >>

\* assembleProjectionForModel(model): the array it returns when it does not throw
assembleProjectionForModel(n) ==
    IF component[n] = None \/ The(component[n]).merged THEN <<>>
    ELSE LET c == The(component[n])
             projection == SplitCombine(c)
             name == projection.name
         IN IF c.data = None
            THEN << Spread([name |-> name,
                            translate |-> SignalRef("[width / 2, height / 2]")],
                           projection) >>
            ELSE LET size == SignalRef("[" \o Join([i \in DOMAIN The(c.size) |->
                                                     The(c.size)[i].signal]) \o "]")
                     fits == FitSources(The(c.data))
                 IN << Spread([name |-> name,
                               size |-> size,
                               fit |-> SignalRef(FitSignal(fits))],
                              projection) >>

\* the models assembleProjections(model) calls assembleProjectionForModel on,
\* in call order: a layer or concat model, then its children, recursively
RECURSIVE AssembleOrder(_)
RECURSIVE AssembleOrderAll(_)
AssembleOrderAll(kids) ==
    IF kids = <<>> THEN <<>>
    ELSE AssembleOrder(Head(kids)) \o AssembleOrderAll(Tail(kids))
AssembleOrder(n) ==
    IF isLayerModel(n) \/ isConcatModel(n)
    THEN <<n>> \o AssembleOrderAll(Children(n))
    ELSE <<n>>

RECURSIVE ConcatEntries(_)
ConcatEntries(order) ==
    IF order = <<>> THEN <<>>
    ELSE assembleProjectionForModel(Head(order)) \o ConcatEntries(Tail(order))

\* the data names whose OutputNode.getSource() is called for these models,
\* up to and including the first model that throws
RECURSIVE SourcesRead(_)
SourcesRead(order) ==
    IF order = <<>> THEN <<>>
    ELSE LET n == Head(order)
             mine == IF IsSome(component[n]) /\ ~The(component[n]).merged
                        /\ isFit(The(component[n]))
                     THEN SelectSeq(The(The(component[n]).data),
                                    LAMBDA d : ~isSignalRef(d)
                                               /\ d.name \in DOMAIN outputNodes)
                     ELSE <<>>
         IN IF FitThrows(n) THEN mine ELSE mine \o SourcesRead(Tail(order))

RECURSIVE IncrAll(_, _)
IncrAll(refCounts, reads) ==
    IF reads = <<>> THEN refCounts
    ELSE IncrAll(IncrRefCount(refCounts, Head(reads).name), Tail(reads))

\* an assembleProjections that flags what it has emitted as merged
AssembleProjectionsTombstoning ==
    /\ phase = "assemble"
    /\ projections = None
    /\ projections' = Some(ConcatEntries(AssembleOrder(Root)))
    /\ component' = [n \in Nodes |->
                         IF IsSome(component[n])
                         THEN Some([The(component[n]) EXCEPT !.merged = TRUE])
                         ELSE None]
    /\ phase' = IF \A n \in Nodes : model[n].mark = "geoshape"
                                      => IsSome(transforms[n])
                THEN "done" ELSE "assemble"
    /\ UNCHANGED <<model, config, projectionNameMap, signalNameMap, outputNodes,
                   outputNodeRefCounts, todo, transforms, error, mergeFirst,
                   mergeSecond, mergeResult, dataVars, nameMapVars>>

\* assembleProjections(root), the whole top-down walk; the message of the
\* Error thrown is written here in English
AssembleProjections ==
    /\ phase = "assemble"
    /\ projections = None
    /\ LET order == AssembleOrder(Root)
           throws == \E i \in DOMAIN order : FitThrows(order[i])
       IN /\ projections' = IF throws THEN None ELSE Some(ConcatEntries(order))
          /\ error' = IF throws THEN "no data source for the projection fit"
                      ELSE error
          /\ phase' = IF throws THEN "error"
                      ELSE IF \A n \in Nodes : model[n].mark = "geoshape"
                                                => IsSome(transforms[n])
                      THEN "done" ELSE "assemble"
          /\ outputNodeRefCounts' = IncrAll(outputNodeRefCounts, SourcesRead(order))
    /\ UNCHANGED <<model, config, component, projectionNameMap, signalNameMap,
                   outputNodes, todo, transforms, mergeFirst, mergeSecond,
                   mergeResult, dataVars, nameMapVars>>

----------------------------------------------------------------------------
(* compile/mark/geoshape.ts *)

\* geoshape.postEncodingTransform(model).projection
postEncodingTransform(n) == projectionName(n, FALSE)

\* the marks of the tree are assembled: every geoshape unit emits its transform
AssembleMarks ==
    /\ phase = "assemble"
    /\ \E n \in Nodes : model[n].mark = "geoshape" /\ transforms[n] = None
    /\ transforms' = [n \in Nodes |->
                         IF model[n].mark = "geoshape"
                         THEN Some(postEncodingTransform(n)) ELSE None]
    /\ phase' = IF IsSome(projections) THEN "done" ELSE "assemble"
    /\ UNCHANGED <<model, config, component, projectionNameMap, signalNameMap,
                   outputNodes, outputNodeRefCounts, todo, projections, error,
                   mergeFirst, mergeSecond, mergeResult, dataVars, nameMapVars>>

----------------------------------------------------------------------------
(* compile/data/geopoint.ts and compile/data/geojson.ts *)

\* def.field of the field definition of a channel: fields are named after
\* their channel
FieldName(channel) == channel \o "_field"

\* one side of a coordinate pair: the field name, an expression for a datum,
\* or undefined; a value definition is no field-or-datum definition
PairEntry(n, channel) ==
    LET def == model[n].encoding[channel]
    IN IF ~getFieldOrDatumDef(def) THEN None
       ELSE IF def.kind = "field" THEN Some([field |-> FieldName(channel)])
       ELSE Some([expr |-> "datum"])

\* coordinates.map(...) for one of the two coordinate pairs
Pair(n, coordinates) ==
    <<PairEntry(n, coordinates[1]), PairEntry(n, coordinates[2])>>

\* new GeoPointNode(parent, projection, fields, as)
GeoPointNode(projection, fields, as) ==
    [projection |-> projection, fields |-> fields, as |-> as]

\* GeoPointNode.parseAll(parent, model): the nodes put on parent, parent first
GeoPointParseAll(n) ==
    IF projectionName(n, FALSE) \in {Undefined, ""} THEN <<>>
    ELSE LET first == Pair(n, <<"longitude", "latitude">>)
             second == Pair(n, <<"longitude2", "latitude2">>)
         IN (IF IsSome(first[1]) \/ IsSome(first[2])
             THEN <<GeoPointNode(projectionName(n, FALSE), first,
                                 <<getName(n, "x"), getName(n, "y")>>)>>
             ELSE <<>>)
            \o (IF IsSome(second[1]) \/ IsSome(second[2])
                THEN <<GeoPointNode(projectionName(n, FALSE), second,
                                    <<getName(n, "x2"), getName(n, "y2")>>)>>
                ELSE <<>>)

\* GeoPointNode.assemble()
GeoPointAssemble(node) ==
    [type |-> "geopoint", projection |-> node.projection,
     fields |-> node.fields, as |-> node.as]

\* new GeoJSONNode(parent, fields, geojson, signal): None is null
GeoJSONNode(fields, geojson, signal) ==
    [fields |-> fields, geojson |-> geojson, signal |-> signal]

\* a parseAll that numbers the signals by role, not by the nodes built
GeoJSONParseAllNumberedByRole(n) ==
    IF IsSome(component[n]) /\ ~isFit(The(component[n])) THEN <<>>
    ELSE LET first == Pair(n, <<"longitude", "latitude">>)
             second == Pair(n, <<"longitude2", "latitude2">>)
         IN (IF IsSome(first[1]) \/ IsSome(first[2])
             THEN <<GeoJSONNode(Some(first), None, getName(n, "geojson_0"))>>
             ELSE <<>>)
            \o (IF IsSome(second[1]) \/ IsSome(second[2])
                THEN <<GeoJSONNode(Some(second), None, getName(n, "geojson_1"))>>
                ELSE <<>>)
            \o (IF channelHasField(n, "shape")
                   /\ model[n].encoding.shape.type = "geojson"
                THEN <<GeoJSONNode(None, Some(FieldName("shape")),
                                   getName(n, "geojson_2"))>>
                ELSE <<>>)

\* GeoJSONNode.parseAll(parent, model): the nodes put on parent, parent first
GeoJSONParseAll(n) ==
    IF IsSome(component[n]) /\ ~isFit(The(component[n])) THEN <<>>
    ELSE LET first == Pair(n, <<"longitude", "latitude">>)
             second == Pair(n, <<"longitude2", "latitude2">>)
             n1 == IF IsSome(first[1]) \/ IsSome(first[2])
                   THEN <<GeoJSONNode(Some(first), None, getName(n, "geojson_0"))>>
                   ELSE <<>>
             n2 == IF IsSome(second[1]) \/ IsSome(second[2])
                   THEN <<GeoJSONNode(Some(second), None,
                              getName(n, "geojson_" \o ToString(Len(n1))))>>
                   ELSE <<>>
             n12 == n1 \o n2
             n3 == IF channelHasField(n, "shape")
                      /\ model[n].encoding.shape.type = "geojson"
                   THEN <<GeoJSONNode(None, Some(FieldName("shape")),
                              getName(n, "geojson_" \o ToString(Len(n12))))>>
                   ELSE <<>>
         IN n12 \o n3

\* the geojson transform of GeoJSONNode.assemble()
GeoJSONTransform(node) ==
    Spread(Spread([type |-> "geojson"],
                  IF IsSome(node.fields) THEN [fields |-> The(node.fields)] ELSE <<>>),
           Spread(IF IsSome(node.geojson) THEN [geojson |-> The(node.geojson)]
                  ELSE <<>>,
                  [signal |-> node.signal]))

\* an assemble() that filters whatever the node was built from
GeoJSONAssembleAlwaysFiltering(node) ==
    << [type |-> "filter", expr |-> "isValid(datum[\"undefined\"])"],
       GeoJSONTransform(node) >>

\* GeoJSONNode.assemble()
GeoJSONAssemble(node) ==
    (IF IsSome(node.geojson)
     THEN << [type |-> "filter",
              expr |-> "isValid(datum[\"" \o The(node.geojson) \o "\"])"] >>
     ELSE <<>>)
    \o << GeoJSONTransform(node) >>

\* duplicate(x): a structural copy, equal to x as a value
duplicate(x) == x

\* JSON text of a string
Quoted(str) == "\"" \o str \o "\""

\* the texts of a list separated by ","
RECURSIVE CommaJoin(_)
CommaJoin(texts) ==
    IF texts = <<>> THEN ""
    ELSE IF Len(texts) = 1 THEN texts[1]
    ELSE texts[1] \o "," \o CommaJoin(Tail(texts))

\* stringify of one side of a coordinate pair: a field name, an expression
\* reference, or null for undefined inside an array
StringifyPairEntry(e) ==
    IF e = None THEN "null"
    ELSE IF "field" \in DOMAIN The(e) THEN Quoted(The(e).field)
    ELSE "{\"expr\":" \o Quoted(The(e).expr) \o "}"

\* hash(a) of a coordinate pair: its JSON text, used as it is when short
hashFields(fields) ==
    "[" \o CommaJoin([i \in DOMAIN fields |-> StringifyPairEntry(fields[i])]) \o "]"

\* hash(a) of a list of names
hashNames(names) ==
    "[" \o CommaJoin([i \in DOMAIN names |-> Quoted(names[i])]) \o "]"

\* `${x}` of a string that may be null
TemplateText(o) == IF o = None THEN "null" ELSE The(o)

\* a clone() that drops the geometry field
GeoJSONCloneWithoutGeojson(node) ==
    [parent |-> "null"] @@ GeoJSONNode(duplicate(node.fields), None, node.signal)

\* GeoJSONNode.clone(): new GeoJSONNode(null, ...)
GeoJSONClone(node) ==
    [parent |-> "null"]
    @@ GeoJSONNode(duplicate(node.fields), node.geojson, node.signal)

\* GeoJSONNode.hash()
GeoJSONHash(node) ==
    "GeoJSON " \o TemplateText(node.geojson) \o " " \o node.signal \o " "
    \o (IF node.fields = None THEN "null" ELSE hashFields(The(node.fields)))

\* GeoPointNode.clone(): new GeoPointNode(null, ...)
GeoPointClone(node) ==
    [parent |-> "null"]
    @@ GeoPointNode(node.projection, duplicate(node.fields), duplicate(node.as))

\* GeoPointNode.hash()
GeoPointHash(node) ==
    "Geopoint " \o node.projection \o " " \o hashFields(node.fields) \o " "
    \o hashNames(node.as)

\* parseProjection(root) is one synchronous call: the data of a unit is parsed
\* before that call begins or after it has returned
BetweenProjectionParses == todo = PostOrder(Root) \/ todo = <<>>

\* parseData of a unit reaches GeoJSONNode.parseAll
ParseGeoJSON(n) ==
    /\ phase \in {"parse", "assemble"}
    /\ isUnitModel(n)
    /\ BetweenProjectionParses
    /\ geoJSONNodes[n] = None
    /\ geoJSONNodes' = [geoJSONNodes EXCEPT ![n] = Some(GeoJSONParseAll(n))]
    /\ UNCHANGED <<model, config, component, projectionNameMap, signalNameMap,
                   outputNodes, outputNodeRefCounts, todo, phase, projections,
                   transforms, error, mergeFirst, mergeSecond, mergeResult,
                   geoPointNodes, dataAssembled, cloned, nameMapVars>>

\* parseData of a unit reaches GeoPointNode.parseAll
ParseGeoPoint(n) ==
    /\ phase \in {"parse", "assemble"}
    /\ isUnitModel(n)
    /\ BetweenProjectionParses
    /\ geoPointNodes[n] = None
    /\ geoPointNodes' = [geoPointNodes EXCEPT ![n] = Some(GeoPointParseAll(n))]
    /\ UNCHANGED <<model, config, component, projectionNameMap, signalNameMap,
                   outputNodes, outputNodeRefCounts, todo, phase, projections,
                   transforms, error, mergeFirst, mergeSecond, mergeResult,
                   geoJSONNodes, dataAssembled, cloned, nameMapVars>>

\* the data of the tree is assembled: assemble() of every node built
AssembleData ==
    /\ phase = "assemble"
    /\ \A n \in Nodes :
          isUnitModel(n) => IsSome(geoJSONNodes[n]) /\ IsSome(geoPointNodes[n])
    /\ dataAssembled' =
          [n \in Nodes |->
              IF isUnitModel(n)
              THEN Some([geojson |-> [i \in DOMAIN The(geoJSONNodes[n]) |->
                                         GeoJSONAssemble(The(geoJSONNodes[n])[i])],
                         geopoint |-> [i \in DOMAIN The(geoPointNodes[n]) |->
                                          GeoPointAssemble(The(geoPointNodes[n])[i])]])
              ELSE None]
    /\ phase' = "done"
    /\ UNCHANGED <<model, config, component, projectionNameMap, signalNameMap,
                   outputNodes, outputNodeRefCounts, todo, projections,
                   transforms, error, mergeFirst, mergeSecond, mergeResult,
                   geoJSONNodes, geoPointNodes, cloned, nameMapVars>>

\* the nodes of a unit are cloned, as when a branch of the data flow is copied
CloneData(n) ==
    /\ phase \in {"parse", "assemble", "done"}
    /\ IsSome(geoJSONNodes[n]) /\ IsSome(geoPointNodes[n])
    /\ cloned[n] = None
    /\ cloned' =
          [cloned EXCEPT ![n] =
              Some([geojson |-> [i \in DOMAIN The(geoJSONNodes[n]) |->
                                    GeoJSONClone(The(geoJSONNodes[n])[i])],
                    geopoint |-> [i \in DOMAIN The(geoPointNodes[n]) |->
                                     GeoPointClone(The(geoPointNodes[n])[i])]])]
    /\ UNCHANGED <<model, config, component, projectionNameMap, signalNameMap,
                   outputNodes, outputNodeRefCounts, todo, phase, projections,
                   transforms, error, mergeFirst, mergeSecond, mergeResult,
                   geoJSONNodes, geoPointNodes, dataAssembled, nameMapVars>>

----------------------------------------------------------------------------
(* Inputs of a compile *)

NoEncoding == [longitude |-> NoDef, latitude |-> NoDef, longitude2 |-> NoDef,
               latitude2 |-> NoDef, shape |-> NoDef]

\* the trees compiled: parent of each node (0 for the root) and its type;
\* the children of a node are declared in the order of their numbers
TreeShapes ==
    { [parent |-> <<0, 1, 1>>, type |-> <<"layer", "unit", "unit">>],
      [parent |-> <<0, 1, 1>>, type |-> <<"concat", "layer", "unit">>],
      [parent |-> <<0, 1, 1, 1>>, type |-> <<"concat", "unit", "unit", "unit">>],
      [parent |-> <<0, 1, 2, 1>>, type |-> <<"concat", "layer", "unit", "unit">>],
      [parent |-> <<0, 1, 2, 2>>, type |-> <<"layer", "layer", "unit", "unit">>] }

\* projections specified on the units of a tree
TreeProjections ==
    {None}
    \cup {Some([type |-> v]) : v \in PropValues}
    \cup {Some([scale |-> v]) : v \in PropValues}
    \cup {Some([type |-> Value("v1"), translate |-> Value("v1")])}

\* the units of a tree: mark, encoding and specified projection
TreeUnits ==
    {[mark |-> "bar", encoding |-> NoEncoding, projection |-> None],
     [mark |-> "geoshape", encoding |-> NoEncoding, projection |-> None]}
    \cup {[mark |-> "point",
           encoding |-> [NoEncoding EXCEPT !.longitude = FieldDef("quantitative"),
                                           !.latitude = FieldDef("quantitative")],
           projection |-> p] : p \in TreeProjections}

\* projections specified on a unit compiled alone
UnitProjections ==
    {None}
    \cup {Some(t @@ s @@ tr) :
            t \in {<<>>} \cup {[type |-> v] : v \in PropValues},
            s \in {<<>>, [scale |-> Null]} \cup {[scale |-> v] : v \in PropValues},
            tr \in {<<>>, [translate |-> [expr |-> "t"]],
                    [size |-> Value("v1")]}}

\* the units compiled alone
SingleUnits ==
    {[mark |-> m,
      encoding |-> [longitude |-> lon, latitude |-> lat, longitude2 |-> lon2,
                    latitude2 |-> NoDef, shape |-> sh],
      projection |-> p] :
        m \in {"geoshape", "point"},
        lon \in {NoDef, FieldDef("quantitative"), ValueDef},
        lat \in {NoDef, DatumDef},
        lon2 \in {NoDef, FieldDef("quantitative")},
        sh \in {NoDef, FieldDef("geojson"), FieldDef("nominal")},
        p \in UnitProjections}

\* config.projection
Configs == {<<>>, [type |-> Value("v1")], [scale |-> Value("v1")]}

\* config.projection of the trees compiled
TreeConfigs == {<<>>, [type |-> Value("v1")]}

RECURSIVE NameOf(_, _, _)
NameOf(parent, given, n) ==
    ModelName(given[n], parent[n] # 0,
              IF parent[n] # 0 THEN NameOf(parent, given, parent[n]) ELSE <<>>)

\* Model constructor: the entry it puts into this.projectionNameMap
ModelProjectionNameMap(c) ==
    IF IsSome(c) /\ ~The(c).merged /\ ComponentName(The(c)) # ""
    THEN NameMapSet(<<>>, ComponentName(The(c)), ComponentName(The(c)))
    ELSE <<>>

\* the state after the Models of a tree are constructed
\*   withComponent  the Models are constructed on a projection component
\*   withSignals    the layout size signals are registered under their names
\*   withData       the main data of every unit is an output node of "source_0"
Construct(shape, given, units, cfg, withComponent, withSignals, withData) ==
    LET N == Len(shape.parent)
    IN /\ model = [n \in 1..N |->
                      [parent |-> shape.parent[n],
                       type |-> shape.type[n],
                       name |-> NameOf(shape.parent, given, n),
                       mark |-> IF shape.type[n] = "unit" THEN units[n].mark
                                ELSE "none",
                       encoding |-> IF shape.type[n] = "unit" THEN units[n].encoding
                                    ELSE NoEncoding,
                       specifiedProjection |->
                           IF shape.type[n] = "unit" THEN units[n].projection
                           ELSE None]]
       /\ config = cfg
       /\ component = [n \in 1..N |->
                          IF withComponent
                          THEN Some(ProjectionComponent(getName(n, "projection"),
                                                        <<>>, None, None))
                          ELSE None]
       /\ projectionNameMap = [n \in 1..N |-> ModelProjectionNameMap(component[n])]
       /\ signalNameMap = [n \in 1..N |->
                              IF withSignals
                              THEN [k \in {getName(n, "width"), getName(n, "height")}
                                       |-> k]
                              ELSE <<>>]
       /\ outputNodes = IF withData
                        THEN [k \in {getDataName(n) : n \in 1..N} |-> "source_0"]
                        ELSE <<>>
       /\ outputNodeRefCounts = <<>>
       /\ todo = PostOrder(Root)
       /\ phase = "parse"
       /\ projections = None
       /\ transforms = [n \in 1..N |-> None]
       /\ error = ""
       /\ mergeFirst = None
       /\ mergeSecond = None
       /\ mergeResult = [done |-> FALSE, value |-> None]
       /\ geoJSONNodes = [n \in 1..N |-> None]
       /\ geoPointNodes = [n \in 1..N |-> None]
       /\ dataAssembled = [n \in 1..N |-> None]
       /\ cloned = [n \in 1..N |-> None]
       /\ nameMap = <<>>
       /\ renamed = None

\* the name of node n, given or not
Given(named, n) == IF n \in named THEN <<"view", " ", ToString(n)>> ELSE <<>>

InitTree ==
    \E shape \in TreeShapes :
      LET N == Len(shape.parent)
          unitNodes == {n \in 1..N : shape.type[n] = "unit"}
      IN \* the root of a tree is not named by its spec
         \E named \in SUBSET (2..N) :
           \E units \in [unitNodes -> TreeUnits] :
             \E cfg \in TreeConfigs, withComponent \in BOOLEAN,
                withSignals \in BOOLEAN :
               Construct(shape, [n \in 1..N |-> Given(named, n)], units, cfg,
                         withComponent, withSignals, TRUE)

InitUnit ==
    \E u \in SingleUnits, cfg \in Configs, named \in SUBSET {1} :
      \E withComponent \in BOOLEAN, withData \in BOOLEAN :
        Construct([parent |-> <<0>>, type |-> <<"unit">>], <<Given(named, 1)>>,
                  <<u>>, cfg, withComponent, withComponent, withData)

Init == InitTree \/ InitUnit

\* the trees whose data is parsed and assembled
DataShapes ==
    { [parent |-> <<0>>, type |-> <<"unit">>],
      [parent |-> <<0, 1>>, type |-> <<"layer", "unit">>],
      [parent |-> <<0, 1, 1>>, type |-> <<"layer", "unit", "unit">>] }

\* projections specified on the units whose data is parsed
DataProjections ==
    {None, Some([type |-> Value("v1")]), Some([scale |-> Value("v1")])}

\* the units whose data is parsed
DataUnits ==
    {[mark |-> m,
      encoding |-> [longitude |-> lon, latitude |-> lat, longitude2 |-> lon2,
                    latitude2 |-> NoDef, shape |-> sh],
      projection |-> p] :
        m \in {"geoshape", "point"},
        lon \in {NoDef, FieldDef("quantitative"), ValueDef},
        lat \in {NoDef, DatumDef},
        lon2 \in {NoDef, FieldDef("quantitative")},
        sh \in {NoDef, FieldDef("geojson"), FieldDef("nominal")},
        p \in DataProjections}

InitData ==
    \E shape \in DataShapes :
      LET N == Len(shape.parent)
          unitNodes == {n \in 1..N : shape.type[n] = "unit"}
      IN \E units \in [unitNodes -> IF N = 3 THEN TreeUnits ELSE DataUnits] :
           \E withComponent \in BOOLEAN :
             Construct(shape, [n \in 1..N |-> <<>>], units, <<>>,
                       withComponent, withComponent, TRUE)

NextData ==
    \/ ParseProjection
    \/ \E n \in Nodes : ParseGeoJSON(n)
    \/ \E n \in Nodes : ParseGeoPoint(n)
    \/ \E n \in Nodes : CloneData(n)
    \/ AssembleData

SpecData == InitData /\ [][NextData]_vars

Next == ParseProjection \/ AssembleProjections \/ AssembleMarks

Spec == Init /\ [][Next]_vars

\* a tree with a composite next to a unit: concat(layer(unit, unit), unit)
NestedShape ==
    [parent |-> <<0, 1, 2, 2, 1>>,
     type |-> <<"concat", "layer", "unit", "unit", "unit">>]

InitNested ==
    LET N == Len(NestedShape.parent)
        unitNodes == {n \in 1..N : NestedShape.type[n] = "unit"}
    IN \E units \in [unitNodes -> TreeUnits] :
         \E withComponent \in BOOLEAN, withSignals \in BOOLEAN :
           Construct(NestedShape, [n \in 1..N |-> <<>>], units, <<>>,
                     withComponent, withSignals, TRUE)

SpecNested == InitNested /\ [][Next]_vars

\* three sibling units under one composite
SiblingsShape ==
    [parent |-> <<0, 1, 1, 1>>, type |-> <<"concat", "unit", "unit", "unit">>]

\* the projections specified on the siblings: none, a size (a property that
\* leaves the fit on), a type or a scale
SiblingProjections ==
    {None, Some([size |-> Value("v1")]), Some([scale |-> Value("v1")])}
    \cup {Some([type |-> v]) : v \in PropValues}

InitSiblings ==
    LET N == Len(SiblingsShape.parent)
    IN \E projs \in [2..N -> SiblingProjections] :
         \E withComponent \in BOOLEAN, withSignals \in BOOLEAN :
           Construct(SiblingsShape, [n \in 1..N |-> <<>>],
                     [n \in 2..N |->
                         [mark |-> "geoshape", encoding |-> NoEncoding,
                          projection |-> projs[n]]],
                     <<>>, withComponent, withSignals, TRUE)

SpecSiblings == InitSiblings /\ [][Next]_vars

----------------------------------------------------------------------------
(* mergeIfNoConflict applied alone to two components *)

\* the projections specified on the two units
MergeProjections ==
    {None}
    \cup {Some(t @@ c @@ s @@ z) :
            t \in {<<>>} \cup {[type |-> v] : v \in PropValues},
            c \in {<<>>} \cup {[center |-> v] : v \in PropValues},
            s \in {<<>>} \cup {[scale |-> v] : v \in PropValues},
            z \in {<<>>, [size |-> Value("v1")]}}

\* the size signals of the two units: registered under their names or not
MergeSizes(name) ==
    {<<SignalRef(Undefined), SignalRef(Undefined)>>,
     <<SignalRef(name \o "_width"), SignalRef(name \o "_height")>>}

InitMerge ==
    /\ model = <<>>
    /\ config \in Configs
    /\ component = <<>>
    /\ projectionNameMap = <<>>
    /\ signalNameMap = <<>>
    /\ outputNodes = <<>>
    /\ outputNodeRefCounts = <<>>
    /\ todo = <<>>
    /\ phase = "merge"
    /\ projections = None
    /\ transforms = <<>>
    /\ error = ""
    /\ \E p \in MergeProjections, size \in MergeSizes("a") :
          mergeFirst = Some(UnitProjectionComponent("a_projection", p, size,
                                <<DataSignal("a_geojson_0")>>))
    /\ \E p \in MergeProjections, size \in MergeSizes("b") :
          mergeSecond = Some(UnitProjectionComponent("b_projection", p, size,
                                 <<DataSignal("b_geojson_0")>>))
    /\ mergeResult = [done |-> FALSE, value |-> None]
    /\ geoJSONNodes = <<>>
    /\ geoPointNodes = <<>>
    /\ dataAssembled = <<>>
    /\ cloned = <<>>
    /\ nameMap = <<>>
    /\ renamed = None

ApplyMerge ==
    /\ phase = "merge"
    /\ ~mergeResult.done
    /\ mergeResult' = [done |-> TRUE,
                       value |-> mergeIfNoConflict(The(mergeFirst), The(mergeSecond))]
    /\ UNCHANGED <<model, config, component, projectionNameMap, signalNameMap,
                   outputNodes, outputNodeRefCounts, todo, phase, projections,
                   transforms, error, mergeFirst, mergeSecond,
                   dataVars, nameMapVars>>

NextMerge == ApplyMerge

SpecMerge == InitMerge /\ [][NextMerge]_vars

----------------------------------------------------------------------------
(* A NameMap used alone: set and rename called in any order *)

\* the names registered and renamed; "" is the empty name
Names == {"a", "b", "c"}

InitNameMap ==
    /\ model = <<>>
    /\ config = <<>>
    /\ component = <<>>
    /\ projectionNameMap = <<>>
    /\ signalNameMap = <<>>
    /\ outputNodes = <<>>
    /\ outputNodeRefCounts = <<>>
    /\ todo = <<>>
    /\ phase = "namemap"
    /\ projections = None
    /\ transforms = <<>>
    /\ error = ""
    /\ mergeFirst = None
    /\ mergeSecond = None
    /\ mergeResult = [done |-> FALSE, value |-> None]
    /\ geoJSONNodes = <<>>
    /\ geoPointNodes = <<>>
    /\ dataAssembled = <<>>
    /\ cloned = <<>>
    /\ nameMap = <<>>
    /\ renamed = None

\* NameMap.set(key, value)
SetName ==
    /\ phase = "namemap"
    /\ \E key \in Names, value \in Names :
          nameMap' = NameMapSet(nameMap, key, value)
    /\ renamed' = None
    /\ UNCHANGED <<model, config, component, projectionNameMap, signalNameMap,
                   outputNodes, outputNodeRefCounts, todo, phase, projections,
                   transforms, error, mergeFirst, mergeSecond, mergeResult,
                   dataVars>>

\* NameMap.rename(oldName, newName); renamed keeps the map before the first
\* and after the first of a run of calls with the same arguments
Rename ==
    /\ phase = "namemap"
    /\ \E oldName \in Names, newName \in Names \cup {""} :
          /\ nameMap' = NameMapRename(nameMap, oldName, newName)
          /\ renamed' =
                IF /\ IsSome(renamed)
                   /\ The(renamed).oldName = oldName
                   /\ The(renamed).newName = newName
                THEN Some([The(renamed) EXCEPT
                              !.times = IF @ < MaxRenames THEN @ + 1 ELSE @])
                ELSE Some([oldName |-> oldName, newName |-> newName,
                           before |-> nameMap, once |-> nameMap', times |-> 1])
    /\ UNCHANGED <<model, config, component, projectionNameMap, signalNameMap,
                   outputNodes, outputNodeRefCounts, todo, phase, projections,
                   transforms, error, mergeFirst, mergeSecond, mergeResult,
                   dataVars>>

NextNameMap == SetName \/ Rename

SpecNameMap == InitNameMap /\ [][NextNameMap]_vars

----------------------------------------------------------------------------
(* Properties *)

\* parseProjection has returned for node n
Parsed(n) == n \notin Range(todo)

\* the children of n that have a projection component
KidsWith(n) == {c \in Range(Children(n)) : IsSome(component[c])}

\* a parsed layer or concat model
ParsedComposite(n) == ~isUnitModel(n) /\ Parsed(n) /\ phase # "error"

\* the specified projection of unit n sets key k to a value that is not null
Specifies(n, k) ==
    /\ IsSome(model[n].specifiedProjection)
    /\ k \in DOMAIN The(model[n].specifiedProjection)
    /\ The(model[n].specifiedProjection)[k] # Null

\* C1: a composite whose children with a component all have the same explicit
\* properties and the same size gets one promoted component, and its explicit
\* properties are those of each such child.
C1_IdenticalChildrenPromote ==
    \A n \in Nodes :
        ( /\ ParsedComposite(n)
          /\ KidsWith(n) # {}
          /\ \A c, d \in KidsWith(n) :
                /\ The(component[c]).explicit = The(component[d]).explicit
                /\ The(component[c]).size = The(component[d]).size )
        => /\ IsSome(component[n])
           /\ \A c \in KidsWith(n) :
                 The(component[n]).explicit = The(component[c]).explicit

C1_Witness ==
    \E n \in Nodes :
        /\ ParsedComposite(n)
        /\ Cardinality(KidsWith(n)) >= 2
        /\ \A c, d \in KidsWith(n) :
              /\ The(component[c]).explicit = The(component[d]).explicit
              /\ The(component[c]).explicit # <<>>
              /\ The(component[c]).size = The(component[d]).size
        /\ IsSome(component[n])

\* C2: two sibling leaves that both set some explicit property, whatever its
\* key, to different values are not merged: their parent gets no component,
\* neither is flagged merged and neither reference is renamed.
C2_ConflictingSiblingsStayApart ==
    \A n \in Nodes : \A c, d \in KidsWith(n) :
        ( /\ ParsedComposite(n)
          /\ isUnitModel(c) /\ isUnitModel(d)
          /\ \E k \in DOMAIN The(component[c]).explicit
                      \cap DOMAIN The(component[d]).explicit :
                The(component[c]).explicit[k] # The(component[d]).explicit[k] )
        => /\ component[n] = None
           /\ ~The(component[c]).merged
           /\ ~The(component[d]).merged
           /\ \A x \in {c, d} :
                 NameMapGet(projectionNameMap[x], getName(x, "projection"))
                     \in {getName(x, "projection"), Undefined}

\* the fit-data lists of the fit-enabled children among kids, concatenated
RECURSIVE ChildFitData(_)
ChildFitData(kids) ==
    IF kids = <<>> THEN <<>>
    ELSE (IF IsSome(component[Head(kids)]) /\ isFit(The(component[Head(kids)]))
          THEN The(The(component[Head(kids)]).data) ELSE <<>>)
         \o ChildFitData(Tail(kids))

\* C4: the data list of a promoted component is the concatenation, in child
\* order, of the fit-data lists of the fit-enabled children, each list once.
C4_PromotedDataIsConcatenation ==
    \A n \in Nodes :
        (ParsedComposite(n) /\ IsSome(component[n]) /\ isFit(The(component[n])))
        => The(The(component[n]).data) = ChildFitData(Children(n))

\* C5: two sibling leaves with a component and no explicit property (and the
\* same size): the parent holds a promoted component, both children are
\* flagged merged, and each child's projectionName() is the parent's name.
C5_PlainSiblingsShare ==
    \A n \in Nodes :
        ( /\ ParsedComposite(n)
          /\ Len(Children(n)) = 2
          /\ \A c \in Range(Children(n)) :
                /\ isUnitModel(c)
                /\ IsSome(component[c])
                /\ The(component[c]).explicit = <<>>
          /\ \A c, d \in Range(Children(n)) :
                The(component[c]).size = The(component[d]).size )
        => /\ IsSome(component[n])
           /\ \A c \in Range(Children(n)) :
                 /\ The(component[c]).merged
                 /\ projectionName(c, FALSE) = getName(n, "projection")

\* the names of the entries of the assembled projections array
AssembledNames == {The(projections)[i].name : i \in DOMAIN The(projections)}

\* C6: once the compile is done, the projection name used by every geoshape
\* transform is the name of an assembled (live) projection.
C6_OutputNamesAreLive ==
    (phase = "done" /\ IsSome(projections))
    => \A n \in Nodes :
          IsSome(transforms[n]) => The(transforms[n]) \in AssembledNames

\* C7: the assembled projections array has no two entries of the same name.
C7_AssembledNamesDistinct ==
    IsSome(projections)
    => \A i, j \in DOMAIN The(projections) :
          i # j => The(projections)[i].name # The(projections)[j].name

\* the fit-source-missing error of assembleProjectionForModel
FitSourceMissing == "no data source for the projection fit"

\* C8: a view with a projection, no explicit scale or translate, no geo field
\* and no backing dataset is not assembled: the fit-source-missing error is
\* raised, and it is raised in the assemble phase, not while resolving.
C8_FitSourceMissingRaised ==
    /\ \A n \in Nodes :
          ( /\ isUnitModel(n) /\ Parsed(n)
            /\ IsSome(component[n]) /\ ~The(component[n]).merged
            /\ ~Specifies(n, "scale") /\ ~Specifies(n, "translate")
            /\ GeoFitSignals(n) = <<>>
            /\ getDataName(n) \notin DOMAIN outputNodes )
          => projections = None
    /\ phase = "error" => (todo = <<>> /\ error = FitSourceMissing)

\* C9: a unit whose specified projection has a scale or a translate that is not
\* null gets a component with no size and no fit data, whatever it encodes.
C9_ExplicitScaleOrTranslateDisablesFit ==
    \A n \in Nodes :
        ( /\ isUnitModel(n) /\ Parsed(n) /\ hasProjection(n)
          /\ (Specifies(n, "scale") \/ Specifies(n, "translate")) )
        => /\ IsSome(component[n])
           /\ The(component[n]).size = None
           /\ The(component[n]).data = None
           /\ ~isFit(The(component[n]))

C9_Witness ==
    \E n \in Nodes :
        /\ isUnitModel(n) /\ Parsed(n)
        /\ Specifies(n, "translate") /\ ~Specifies(n, "scale")
        /\ GeoFitSignals(n) # <<>>
        /\ IsSome(component[n]) /\ ~isFit(The(component[n]))

SharedOnBothSides(a, b) ==
    \A prop \in PROJECTION_PROPERTIES :
        \/ prop \notin DOMAIN a.explicit \cup DOMAIN b.explicit
        \/ /\ prop \in DOMAIN a.explicit \cap DOMAIN b.explicit
           /\ a.explicit[prop] = b.explicit[prop]

LiveNodes ==
    SeqOfSet({n \in Nodes : IsSome(component[n]) /\ ~The(component[n]).merged})

\* the strings of a list separated by ", "
RECURSIVE CommaList(_)
CommaList(strs) ==
    IF Len(strs) = 1 THEN strs[1]
    ELSE strs[1] \o ", " \o CommaList(Tail(strs))

\* C12: the fit expression of an emitted fit-enabled component is its one
\* source as it is, or its two or more sources, in list order, separated by
\* ", " and enclosed in brackets.
C12_FitExpressionFormat ==
    IsSome(projections)
    => \A i \in DOMAIN LiveNodes :
          LET c == The(component[LiveNodes[i]])
              sources == FitSources(The(c.data))
          IN (i \in DOMAIN The(projections) /\ isFit(c) /\ "fit" \notin DOMAIN c.explicit)
             => The(projections)[i].fit =
                   SignalRef(IF Len(sources) = 1 THEN sources[1]
                             ELSE "[" \o CommaList(sources) \o "]")

C12_Witness ==
    /\ IsSome(projections)
    /\ \E i \in DOMAIN LiveNodes :
          LET c == The(component[LiveNodes[i]])
          IN /\ isFit(c)
             /\ Len(FitSources(The(c.data))) >= 2
             /\ The(projections)[i].fit =
                   SignalRef("[" \o CommaList(FitSources(The(c.data))) \o "]")

\* C13: the assembled array has no entry for a merged component and exactly
\* one entry for every component that is not merged, under its name and in the
\* order of the walk.
C13_MergedSkippedLiveEmittedOnce ==
    IsSome(projections)
    => /\ Len(The(projections)) = Len(LiveNodes)
       /\ \A i \in DOMAIN LiveNodes :
             The(projections)[i].name = ComponentName(The(component[LiveNodes[i]]))

C13_Witness ==
    /\ IsSome(projections)
    /\ Len(The(projections)) = 1
    /\ Cardinality({n \in Nodes : IsSome(component[n]) /\ The(component[n]).merged}) >= 2

\* C14: a step of the assemble phase changes no component (so no merged flag)
\* and no name map.
C14_AssembleIsReadOnly ==
    [][phase = "assemble"
       => /\ component' = component
          /\ projectionNameMap' = projectionNameMap
          /\ signalNameMap' = signalNameMap]_vars

C14_Witness ==
    /\ IsSome(projections)
    /\ \E n \in Nodes : IsSome(component[n]) /\ The(component[n]).merged
    /\ \E n \in Nodes : IsSome(component[n]) /\ ~The(component[n]).merged
    /\ \E n \in Nodes : projectionNameMap[n] # <<>>

\* C15: every property of the explicit layer of an emitted component is in
\* its entry with its explicit value, and an entry without fit has the
\* centring translate when the component has no explicit translate.
C15_ExplicitWinsInEntries ==
    IsSome(projections)
    => \A i \in DOMAIN LiveNodes :
          LET c == The(component[LiveNodes[i]])
          IN i \in DOMAIN The(projections)
             => LET entry == The(projections)[i]
                IN /\ \A k \in DOMAIN c.explicit :
                         k \in DOMAIN entry /\ entry[k] = c.explicit[k]
                   /\ (~isFit(c) /\ "translate" \notin DOMAIN c.explicit)
                      => entry.translate = SignalRef("[width / 2, height / 2]")

C15_Witness ==
    /\ IsSome(projections)
    /\ \E i \in DOMAIN LiveNodes :
          LET c == The(component[LiveNodes[i]])
          IN /\ isFit(c)
             /\ "size" \in DOMAIN c.explicit
             /\ The(projections)[i].size = c.explicit["size"]

\* node c is below node n in the tree
RECURSIVE IsBelow(_, _)
IsBelow(c, n) ==
    /\ model[c].parent # 0
    /\ (model[c].parent = n \/ IsBelow(model[c].parent, n))

\* C19: when the reduction of a composite is about to begin, and ever after,
\* parseProjection has returned for every node below it, nested composites
\* with their own promotion included.
C19_ChildrenResolvedFirst ==
    \A n \in Nodes :
        (~isUnitModel(n) /\ (Parsed(n) \/ (todo # <<>> /\ Head(todo) = n)))
        => \A c \in Nodes : IsBelow(c, n) => Parsed(c)

C19_Witness ==
    \E n \in Nodes : \E c \in Range(Children(n)) :
        /\ phase = "parse" /\ todo # <<>> /\ Head(todo) = n
        /\ ~isUnitModel(c)
        /\ IsSome(component[c])
        /\ \E d \in Range(Children(c)) :
              IsSome(component[d]) /\ The(component[d]).merged

\* C20: when a merge attempt of a composite's reduction fails, the composite
\* gets no component and no child changes: merged flags, data lists and name
\* maps stay as they were, also for the children merged before the failure.
C20_FailedReductionChangesNothing ==
    [][( /\ phase = "parse" /\ todo # <<>>
         /\ ~isUnitModel(Head(todo))
         /\ ~MergeChildren(Children(Head(todo)), 1, None).mergable )
       => /\ component'[Head(todo)] = None
          /\ \A c \in Nodes \ {Head(todo)} : component'[c] = component[c]
          /\ projectionNameMap' = projectionNameMap]_vars

C20_Witness ==
    \E n \in Nodes :
        LET kids == Children(n)
        IN /\ ParsedComposite(n)
           /\ Len(kids) = 3
           /\ \A c \in Range(kids) : IsSome(component[c]) /\ ~The(component[c]).merged
           /\ IsSome(mergeIfNoConflict(The(component[kids[1]]), The(component[kids[2]])))
           /\ mergeIfNoConflict(The(component[kids[1]]), The(component[kids[3]])) = None
           /\ component[n] = None
           /\ \A c \in Range(kids) :
                 projectionNameMap[c] # <<>>
                 /\ NameMapGet(projectionNameMap[c], getName(c, "projection"))
                        = getName(c, "projection")

\* C16: the projection of every assembled geopoint transform is the name the
\* unit's projectionName() gives once all merges are done, whenever the node
\* was constructed.
C16_GeoPointNameResolvedAtAssembly ==
    \A n \in Nodes :
        IsSome(dataAssembled[n])
        => \A i \in DOMAIN The(dataAssembled[n]).geopoint :
              The(dataAssembled[n]).geopoint[i].projection = projectionName(n, FALSE)

\* C17: a unit gets GeoJSONNodes only if it has a fit-enabled projection
\* component, and none if its projection has an explicit scale or translate.
C17_GeoJSONOnlyForFit ==
    \A n \in Nodes :
        IsSome(geoJSONNodes[n])
        => /\ The(geoJSONNodes[n]) # <<>>
              => IsSome(component[n]) /\ isFit(The(component[n]))
           /\ (hasProjection(n) /\ (Specifies(n, "scale") \/ Specifies(n, "translate")))
              => The(geoJSONNodes[n]) = <<>>

\* C18: a GeoJSONNode built from a geometry field assembles to the isValid
\* filter on that field followed by the geojson extraction; one built from a
\* coordinate pair assembles to the geojson extraction alone.
C18_GeoJSONAssembleFilter ==
    \A n \in Nodes :
        IsSome(dataAssembled[n])
        => \A i \in DOMAIN The(geoJSONNodes[n]) :
              LET node == The(geoJSONNodes[n])[i]
                  out == The(dataAssembled[n]).geojson[i]
              IN /\ IsSome(node.geojson)
                    => /\ Len(out) = 2
                       /\ out[1] = [type |-> "filter",
                                     expr |-> "isValid(datum[\"shape_field\"])"]
                       /\ out[2].type = "geojson"
                       /\ out[2].geojson = "shape_field"
                       /\ out[2].signal = node.signal
                 /\ (IsSome(node.fields) /\ node.geojson = None)
                    => /\ Len(out) = 1
                       /\ out[1].type = "geojson"
                       /\ out[1].fields = The(node.fields)
                       /\ out[1].signal = node.signal

C18_Witness ==
    \E n \in Nodes :
        /\ IsSome(dataAssembled[n])
        /\ \E i, j \in DOMAIN The(geoJSONNodes[n]) :
              /\ IsSome(The(geoJSONNodes[n])[i].geojson)
              /\ IsSome(The(geoJSONNodes[n])[j].fields)
              /\ Len(The(dataAssembled[n]).geojson[i]) = 2
              /\ Len(The(dataAssembled[n]).geojson[j]) = 1

\* C21: a successful mergeIfNoConflict returns its first argument when both
\* sides have explicit properties or neither has, and the side that has
\* explicit properties when only one side has any.
C21_MergeReturnsSideWithExplicit ==
    (mergeResult.done /\ IsSome(mergeResult.value))
    => LET a == The(mergeFirst)
           b == The(mergeSecond)
       IN The(mergeResult.value) =
             IF a.explicit = <<>> /\ b.explicit # <<>> THEN b ELSE a

\* C22: the reduction of a composite gives what it gives over the children
\* that have a component alone: the composite gets a component exactly when
\* those children merge (none when there is no such child), built from their
\* representative; a child without a component stays without one and keeps
\* its name map, and the other children are flagged exactly on promotion.
C22_ComponentlessChildrenAreSkipped ==
    [][(phase = "parse" /\ todo # <<>> /\ ~isUnitModel(Head(todo)))
       => LET n == Head(todo)
              kids == Children(n)
              with == SelectSeq(kids, LAMBDA c : IsSome(component[c]))
              red == MergeChildren(with, 1, None)
              promoted == red.mergable /\ IsSome(red.nonUnitProjection)
          IN /\ IsSome(component'[n]) <=> promoted
             /\ promoted
                => /\ The(component'[n]).specifiedProjection
                         = The(red.nonUnitProjection).specifiedProjection
                   /\ The(component'[n]).size = The(red.nonUnitProjection).size
             /\ with = <<>> => component'[n] = None
             /\ \A c \in Range(kids) :
                   component[c] = None
                   => /\ component'[c] = None
                      /\ projectionNameMap'[c] = projectionNameMap[c]
             /\ \A c \in Range(with) :
                   The(component'[c]).merged <=> promoted]_vars

C22_Witness ==
    \E n \in Nodes :
        LET kids == Children(n)
        IN /\ ParsedComposite(n)
           /\ Len(kids) = 3
           /\ IsSome(component[kids[1]]) /\ The(component[kids[1]]).merged
           /\ component[kids[2]] = None
           /\ projectionNameMap[kids[2]] # <<>>
           /\ IsSome(component[kids[3]]) /\ The(component[kids[3]]).merged
           /\ IsSome(component[n])

\* the GeoJSONNodes and the GeoPointNodes built for the units of the tree
AllGeoJSONNodes ==
    UNION {Range(The(geoJSONNodes[n])) : n \in {m \in Nodes : IsSome(geoJSONNodes[m])}}
AllGeoPointNodes ==
    UNION {Range(The(geoPointNodes[n])) : n \in {m \in Nodes : IsSome(geoPointNodes[m])}}

C24_LiveComponentKeepsItsName ==
    \A n \in Nodes :
        ( /\ Parsed(n) /\ phase # "error"
          /\ IsSome(component[n]) /\ ~The(component[n]).merged )
        => /\ ComponentName(The(component[n])) = getName(n, "projection")
           /\ projectionName(n, FALSE) = getName(n, "projection")
           /\ NameMapGet(projectionNameMap[n], getName(n, "projection"))
                 = getName(n, "projection")

\* C25: a component has a fit-data list exactly when it has a size; the
\* children flagged merged under a promoted component are all fit-enabled or
\* all not, like the promoted component; and the promotion never pushes on a
\* missing data list (no TypeError).
C25_DataIffSizeAndOneFitMode ==
    /\ \A n \in Nodes :
          IsSome(component[n])
          => (The(component[n]).data = None <=> The(component[n]).size = None)
    /\ \A n \in Nodes :
          (~isUnitModel(n) /\ Parsed(n) /\ IsSome(component[n]))
          => \A c \in KidsWith(n) :
                /\ The(component[c]).merged
                /\ isFit(The(component[c])) = isFit(The(component[n]))
    /\ phase # "error"
    /\ error # "TypeError"

C25_Witness ==
    \E n \in Nodes :
        /\ ParsedComposite(n)
        /\ IsSome(component[n])
        /\ ~isFit(The(component[n]))
        /\ The(component[n]).size = None
        /\ Cardinality(KidsWith(n)) >= 2
        /\ \A c \in KidsWith(n) :
              The(component[c]).merged /\ The(component[c]).data = None

\* C26: the data list of every fit-enabled component has at least one entry
\* and gives at least one source; for a fit-enabled unit without coordinate
\* pair and without GeoJSON shape field it is the one requested main data
\* name; and no assembly fails for want of a source.
C26_FitDataNeverEmpty ==
    /\ \A n \in Nodes :
          (IsSome(component[n]) /\ isFit(The(component[n])))
          => /\ Len(The(The(component[n]).data)) >= 1
             /\ Len(FitSources(The(The(component[n]).data))) >= 1
             /\ ~FitThrows(n)
    /\ \A n \in Nodes :
          ( /\ isUnitModel(n) /\ Parsed(n)
            /\ IsSome(component[n]) /\ isFit(The(component[n]))
            /\ GeoFitSignals(n) = <<>> )
          => /\ The(The(component[n]).data) = <<DataName(getDataName(n))>>
             /\ getDataName(n) \in DOMAIN outputNodeRefCounts
    /\ error # FitSourceMissing

C26_Witness ==
    /\ IsSome(projections)
    /\ \E n \in Nodes :
          /\ ~isUnitModel(n)
          /\ IsSome(component[n]) /\ isFit(The(component[n]))
          /\ \E c \in KidsWith(n) :
                /\ isUnitModel(c)
                /\ GeoFitSignals(c) = <<>>
                /\ The(The(component[c]).data) = <<DataName(getDataName(c))>>
          /\ \E i \in DOMAIN The(projections) :
                /\ "fit" \in DOMAIN The(projections)[i]
                /\ The(projections)[i].name = ComponentName(The(component[n]))

\* the strings of a list without the repetitions, each at the place of its
\* first occurrence
FirstOccurrences(strs) ==
    LET firsts == SeqOfSet({k \in DOMAIN strs :
                               \A j \in 1..(k - 1) : strs[j] # strs[k]})
    IN [i \in DOMAIN firsts |-> strs[firsts[i]]]

\* C27: the fit expression of an emitted fit-enabled component is made of the
\* distinct sources of its data list, each once, in the order of their first
\* occurrence in the list.
C27_FitSourcesOnceInOrder ==
    IsSome(projections)
    => \A i \in DOMAIN LiveNodes :
          LET c == The(component[LiveNodes[i]])
          IN (i \in DOMAIN The(projections) /\ isFit(c)
                /\ "fit" \notin DOMAIN c.explicit)
             => LET data == The(c.data)
                    sources == FirstOccurrences(
                                   [k \in DOMAIN data |-> FitSource(data[k])])
                IN The(projections)[i].fit =
                      SignalRef(IF Len(sources) = 1 THEN sources[1]
                                ELSE "[" \o CommaList(sources) \o "]")

C27_Witness ==
    /\ IsSome(projections)
    /\ \E i \in DOMAIN LiveNodes :
          LET c == The(component[LiveNodes[i]])
          IN /\ isFit(c)
             /\ LET data == The(c.data)
                     sources == FirstOccurrences(
                                    [k \in DOMAIN data |-> FitSource(data[k])])
                 IN /\ Len(data) >= 3
                    /\ Len(sources) = 2
                    /\ FitSource(data[1]) = FitSource(data[2])
                    /\ The(projections)[i].fit =
                          SignalRef("[" \o CommaList(sources) \o "]")

RECURSIVE PathToRoot(_)
PathToRoot(n) ==
    IF model[n].parent = 0 THEN {n} ELSE {n} \cup PathToRoot(model[n].parent)

\* the nodes from n upwards as far as every node holds a component
RECURSIVE ChainUp(_)
ChainUp(n) ==
    IF component[n] = None THEN {}
    ELSE IF model[n].parent = 0 THEN {n}
    ELSE {n} \cup ChainUp(model[n].parent)

\* the nodes of a set that hold a component that is not merged
Live(S) == {m \in S : IsSome(component[m]) /\ ~The(component[m]).merged}

\* a component is merged only under a parent that holds a component, and a
\* composite holds a component only if its children's components are merged
TombstonesMatchPromotions ==
    /\ \A c \in Nodes :
          (IsSome(component[c]) /\ The(component[c]).merged)
          => model[c].parent # 0 /\ IsSome(component[model[c].parent])
    /\ \A n \in Nodes :
          (~isUnitModel(n) /\ IsSome(component[n]))
          => \A c \in KidsWith(n) : The(component[c]).merged

\* C29 as stated: after resolve, exactly one node on the path from a leaf
\* with a component to the root holds a component that is not merged.
C29_OneLiveComponentOnPath ==
    (todo = <<>> /\ phase # "error")
    => /\ \A n \in Nodes :
             (isUnitModel(n) /\ IsSome(component[n]))
             => Cardinality(Live(PathToRoot(n))) = 1
       /\ TombstonesMatchPromotions

\* C29 amended: after resolve, among the nodes from a leaf with a component
\* upwards as far as every node holds a component, exactly one holds a
\* component that is not merged, and it is the topmost of them; so the path
\* to the root has at least one such node, and more than one only above a
\* node without a component.
C29_OneLiveComponentOnChain ==
    (todo = <<>> /\ phase # "error")
    => /\ \A n \in Nodes :
             (isUnitModel(n) /\ IsSome(component[n]))
             => /\ Cardinality(Live(ChainUp(n))) = 1
                /\ \A m \in Live(ChainUp(n)) :
                      model[m].parent = 0 \/ component[model[m].parent] = None
                /\ Cardinality(Live(PathToRoot(n))) >= 1
       /\ TombstonesMatchPromotions

C29_Witness ==
    /\ todo = <<>> /\ phase # "error"
    /\ \E n \in Nodes :
          /\ isUnitModel(n) /\ IsSome(component[n])
          /\ Cardinality(PathToRoot(n)) = 3
          /\ Cardinality(Live(PathToRoot(n))) = 2
          /\ Live(ChainUp(n)) = {n}
    /\ \E n \in Nodes :
          /\ isUnitModel(n) /\ IsSome(component[n])
          /\ The(component[n]).merged
          /\ Live(ChainUp(n)) = {Root}

\* the children of n in every order
ChildOrders(n) ==
    LET kids == Children(n)
    IN {[i \in DOMAIN kids |-> kids[f[i]]] : f \in Permutations(DOMAIN kids)}

\* the reduction over the children in the order kids ends in a promotion
ReductionSucceeds(kids) ==
    LET red == MergeChildren(kids, 1, None)
    IN red.mergable /\ IsSome(red.nonUnitProjection)

\* C30: when the reduction of a composite begins, it succeeds for the
\* children in their declaration order exactly when it succeeds for them in
\* any other order.
C30_ReductionOrderIndependent ==
    \A n \in Nodes :
        (phase = "parse" /\ todo # <<>> /\ Head(todo) = n /\ ~isUnitModel(n))
        => \A kids \in ChildOrders(n) :
              ReductionSucceeds(kids) <=> ReductionSucceeds(Children(n))

====
